---- MODULE Spec2Model ----
(***************************************************************************)
(* Model of rss_everyday (src/main.go): startup (init), the subscription   *)
(* producer, the pool of feed consumers, the Telegram delivery goroutine   *)
(* and main's orchestration, plus the pure window/filter computation of    *)
(* GetPostInfo.                                                            *)
(*                                                                         *)
(* Time values.  Go's time.Duration is an int64 count of nanoseconds and   *)
(* Time.Unix() an int64 count of seconds.  Such a number is written here   *)
(* as a record [h, s, ns] standing for h*3600e9 + s*1e9 + ns nanoseconds   *)
(* with 0 <= s < 3600 and 0 <= ns < 1e9 (h carries the sign), so that the  *)
(* int64 range and its wrap-around are exact.  Instants count from the     *)
(* Unix epoch.                                                             *)
(***************************************************************************)
EXTENDS Integers, Sequences, FiniteSets, TLC

VARIABLES
    \* ---- GetPostInfo run on its own (SpecFetch)
    fPc,        \* "idle" | "window" | "filter" | "done"
    fNow,       \* time.Now().UTC() of the call
    fStartBy,   \* *StartBy
    fFeed,      \* what fp.ParseURL returned: [ok, items]
    fWindow,    \* [start, end] once computed
    fMsg        \* the returned slice (indices of the entries kept)

VARIABLES
    \* ---- PushPost's loop run twice on one queue order (SpecPair)
    pQueue,     \* what is still to be received from tgChan, the same for both
    pLive,      \* the run with *DebugMode false: [pc, cnt, pauses, n, sends, beats]
    pDebug      \* the run with *DebugMode true

VARIABLES
    \* ---- flags and environment of one process run (fixed once chosen)
    BotToken,       \* *BotToken: "" or a token
    ChannelID,      \* *ChannelID
    StartBy,        \* *StartBy, hours
    DebugMode,      \* *DebugMode
    GoroutineNum,   \* *GoroutineNum
    rssFile,        \* the file at *RSSFilePath: [state, n], n descriptors when it decodes
    feedOf,         \* what fp.ParseURL answers for the i-th descriptor: [ok, items]
    chanCap,        \* the capacities infoChan and tgChan were made with: [info, tg]
    \* ---- program state
    proc,           \* "running" | "panicked" | "exited"
    pcMain,         \* "TokenValid" | "GetRssInfo" | "main" | "wgWait" | "waitDone" | "exited"
    RssInfos,       \* RssInfos.RssInfo, descriptors named by their position in the file
    infoChan,       \* [buf, closed]
    tgChan,         \* [buf, closed], items are [sub, idx]
    pcProd,         \* InfoProducer: "idle" | "run" | "done"
    prodNext,       \* index of the range loop of InfoProducer
    pcW,            \* InfoComsumer w: "idle" | "run" | "done"
    wFeeds,         \* InfoComsumer w: the feeds still to be sent to tgChan
    wg,             \* the WaitGroup counter
    pcPush,         \* PushPost: "idle" | "once" | "loop" | "done" | "panicOnce" | "panicBeat"
    cnt,            \* PushPost's cnt
    bot,            \* "nil" | "client"
    ctxDone,        \* ctx cancelled (PushPost's deferred done ran)
    \* ---- what an observer of the run records
    fetchCount,     \* per descriptor: calls of GetPostInfo
    fetchResult,    \* per descriptor: what that call returned
    dequeued,       \* descriptors received from infoChan, in order
    processed,      \* items received by PushPost, in order
    itemSends,      \* bot.Send calls for items
    sendFailed,     \* one of those returned an error ("send tg err" was logged)
    beatSends,      \* bot.Send calls for the beat package
    pauses          \* Len(processed) at each time.Sleep

fetchVars == <<fPc, fNow, fStartBy, fFeed, fWindow, fMsg>>
pairVars == <<pQueue, pLive, pDebug>>
sideVars == <<fetchVars, pairVars>>
envVars == <<BotToken, ChannelID, StartBy, DebugMode, GoroutineNum, rssFile, feedOf,
             chanCap>>
progVars == <<proc, pcMain, RssInfos, infoChan, tgChan, pcProd, prodNext, pcW, wFeeds,
              wg, pcPush, cnt, bot, ctxDone>>
obsVars == <<fetchCount, fetchResult, dequeued, processed, itemSends, sendFailed,
             beatSends, pauses>>

vars == <<fetchVars, pairVars, envVars, progVars, obsVars>>

-----------------------------------------------------------------------------
\* time.Hour / time.Second and time.Second / time.Nanosecond
SecsPerHour == 3600
NanosPerSec == 1000000000

W(h, s, ns) == [h |-> h, s |-> s, ns |-> ns]

\* carry nanoseconds into seconds and seconds into hours
WNorm(h, s, ns) ==
    LET s2 == s + (ns \div NanosPerSec)
    IN  W(h + (s2 \div SecsPerHour), s2 % SecsPerHour, ns % NanosPerSec)

WAdd(a, b) == WNorm(a.h + b.h, a.s + b.s, a.ns + b.ns)
WMinus(a) == WNorm(-a.h, -a.s, -a.ns)

WLess(a, b) ==
    \/ a.h < b.h
    \/ a.h = b.h /\ a.s < b.s
    \/ a.h = b.h /\ a.s = b.s /\ a.ns < b.ns

WLeq(a, b) == a = b \/ WLess(a, b)

\* int64: 2^63 - 1 ns = 2562047 h 2836 s 854775807 ns;  2^64 ns = 5124095 h 2073 s 709551616 ns
MaxInt64 == W(2562047, 2836, 854775807)
MinInt64 == W(-2562048, 763, 145224192)
TwoTo64 == W(5124095, 2073, 709551616)

\* the value an int64 holds after an arithmetic result x
RECURSIVE Wrap64(_)
Wrap64(x) ==
    IF WLess(MaxInt64, x) THEN Wrap64(WAdd(x, WMinus(TwoTo64)))
    ELSE IF WLess(x, MinInt64) THEN Wrap64(WAdd(x, TwoTo64))
    ELSE x

\* time.Duration(*StartBy) * time.Hour
DurationHours(startBy) == Wrap64(W(startBy, 0, 0))

\* -(d) on an int64
Neg64(d) == Wrap64(WMinus(d))

\* t.Add(d)
TimeAdd(t, d) == WAdd(t, d)

\* time.Date(t.Year(), t.Month(), t.Day(), t.Hour(), 0, 0, 0, UTC)
TruncHour(t) == W(t.h, 0, 0)

\* t.Unix(): whole seconds since the epoch, the nanoseconds dropped
Unix(t) == W(t.h, t.s, 0)

\* the zero time.Time: January 1, year 1, 00:00:00 UTC = Unix -62135596800 s
ZeroTime == W(-17259888, 0, 0)
IsZero(t) == t = ZeroTime

\* *time.Time: <<>> is nil, <<t>> points to t
Nil == <<>>
Ptr(t) == <<t>>

\* lines 130-133: the [start, end) bounds, in Unix seconds
ComputeWindow(now, startBy) ==
    LET startTime == TimeAdd(now, Neg64(DurationHours(startBy)))
    IN  [start |-> Unix(TruncHour(startTime)),
         end   |-> Unix(TruncHour(now))]

\* getDatetime: the first non-nil, non-zero time, else the last one given
RECURSIVE getDatetimeFrom(_, _)
getDatetimeFrom(times, i) ==
    IF i > Len(times) THEN times[Len(times)]
    ELSE IF times[i] # Nil /\ ~IsZero(times[i][1]) THEN times[i]
    ELSE getDatetimeFrom(times, i + 1)

\* (mutation) the two timestamps passed in the other order
getDatetimeUpdatedFirst(times) == getDatetimeFrom(<<times[2], times[1]>>, 1)

getDatetime(times) == getDatetimeFrom(times, 1)

\* (mutation) the upper bound taken inclusive
InWindowClosedEnd(parseDatetime, start, end) ==
    /\ parseDatetime # Nil
    /\ WLeq(start, Unix(parseDatetime[1]))
    /\ WLeq(Unix(parseDatetime[1]), end)

\* line 144: the test an entry passes to be appended
InWindow(parseDatetime, start, end) ==
    /\ parseDatetime # Nil
    /\ WLeq(start, Unix(parseDatetime[1]))
    /\ WLess(Unix(parseDatetime[1]), end)

\* lines 140-147: the loop over feed.Items, msg = append(msg, item)
RECURSIVE FilterItems(_, _, _, _)
FilterItems(items, i, msg, win) ==
    IF i > Len(items) THEN msg
    ELSE LET parseDatetime == getDatetime(<<items[i].pub, items[i].upd>>)
         IN  FilterItems(items, i + 1,
                 IF InWindow(parseDatetime, win.start, win.end)
                 THEN Append(msg, i) ELSE msg,
                 win)

\* GetPostInfo, given the clock reading and the parser's answer
GetPostInfo(feed, now, startBy) ==
    IF ~feed.ok THEN <<>>
    ELSE FilterItems(feed.items, 1, <<>>, ComputeWindow(now, startBy))

-----------------------------------------------------------------------------
\* The pipeline: init, main, InfoProducer, InfoComsumer, PushPost

\* make(chan RssInfo, 20) and make(chan *gofeed.Item, 20)
InfoChanCap == 20
TgChanCap == 20

\* cnt%10 == 0
PaceEvery == 10

MaxSubs == 3
MaxWorkers == 2
LongLen == 25

\* hours since the epoch of 2026-11-02 04:00 UTC
NowHour == 498220

Workers == 1..MaxWorkers

\* lines 77 and 79: the capacities given to make
MadeCap == [info |-> InfoChanCap, tg |-> TgChanCap]

NewChan == [buf |-> <<>>, closed |-> FALSE]
\* (mutation) a send that puts the element at the head of the buffer
ChanSendFront(ch, x) == [ch EXCEPT !.buf = <<x>> \o @]
ChanSend(ch, x) == [ch EXCEPT !.buf = Append(@, x)]
ChanRecv(ch) == [ch EXCEPT !.buf = Tail(@)]
ChanClose(ch) == [ch EXCEPT !.closed = TRUE]

\* (mutation) a buffer that takes one element more than its capacity
ChanFullOver(ch, cap) == Len(ch.buf) > cap

\* a send blocks while the buffer holds cap elements
ChanFull(ch, cap) == Len(ch.buf) >= cap

\* (mutation) a range over a channel that ends as soon as the buffer is empty
ChanRangeEndsWhenEmpty(ch) == ch.buf = <<>>

\* a range over a channel ends when it is closed and its buffer is empty
ChanRangeEnded(ch) == ch.buf = <<>> /\ ch.closed

\* (mutation) a wg.Wait() that returns at once
WgWaitReturnsAtOnce(counter) == TRUE

\* line 233: wg.Wait() returns when the counter is zero
WgWaitReturns(counter) == counter = 0

\* (mutation) a main that does not wait for ctx
CtxDoneNotAwaited(done) == TRUE

\* line 238: <-ctx.Done() returns once ctx is cancelled
CtxDoneReturns(done) == done

RECURSIVE SeqsUpTo(_, _)
SeqsUpTo(S, n) ==
    IF n = 0 THEN {<<>>}
    ELSE LET shorter == SeqsUpTo(S, n - 1)
         IN  shorter \cup {Append(q, x) : q \in shorter, x \in S}

\* fp.ParseURL: an error, or a feed with its Items (PublishedParsed, UpdatedParsed)
ParseFailed == [ok |-> FALSE, items |-> <<>>]
Parsed(items) == [ok |-> TRUE, items |-> items]

\* ---- the inputs of a run
\* clock readings of time.Now(), one in each of two consecutive hours
PipeNows == {W(NowHour, 1754, 5), W(NowHour + 1, 3, 0)}
PipeLookBacks == {0, 3}

EntryIn == [pub |-> Ptr(W(NowHour - 2, 0, 0)), upd |-> Nil]
EntryOld == [pub |-> Ptr(W(NowHour - 30, 0, 0)), upd |-> Ptr(W(NowHour - 1, 0, 0))]
EntryUpd == [pub |-> Ptr(ZeroTime), upd |-> Ptr(W(NowHour - 1, 5, 0))]
EntryNone == [pub |-> Nil, upd |-> Nil]
EntryEdge == [pub |-> Ptr(W(NowHour - 3, 0, 0)), upd |-> Nil]

\* the short answers, taken in turn from a starting point r
SmallFeed(k) ==
    CASE k % 3 = 0 -> ParseFailed
      [] k % 3 = 1 -> Parsed(<<EntryIn, EntryOld, EntryUpd>>)
      [] OTHER     -> Parsed(<<EntryNone, EntryEdge>>)
LongFeed == Parsed([k \in 1..LongLen |-> EntryIn])

\* the answers of fp.ParseURL, per descriptor: short feeds, or one long feed
\* among failing ones, or more failing ones than infoChan holds
FeedLists ==
    {[i \in 1..n |-> SmallFeed(i + r)] : n \in 0..MaxSubs, r \in 0..2} \cup
    {[i \in 1..n |-> IF i = p THEN LongFeed ELSE ParseFailed] :
        n \in 1..2, p \in 1..2} \cup
    {[i \in 1..(InfoChanCap + 2) |-> ParseFailed]}

RssFiles == {[state |-> "missing", n |-> 0], [state |-> "malformed", n |-> 0]}

InitProg ==
    /\ pcMain = "TokenValid"
    /\ RssInfos = <<>>
    /\ infoChan = NewChan
    /\ tgChan = NewChan
    /\ pcProd = "idle"
    /\ prodNext = 1
    /\ pcW = [w \in Workers |-> "idle"]
    /\ wFeeds = [w \in Workers |-> <<>>]
    /\ wg = 0
    /\ pcPush = "idle"
    /\ cnt = 0
    /\ bot = "nil"
    /\ ctxDone = FALSE
    /\ fetchCount = [i \in 1..Len(feedOf) |-> 0]
    /\ fetchResult = [i \in 1..Len(feedOf) |-> <<>>]
    /\ dequeued = <<>>
    /\ processed = <<>>
    /\ itemSends = 0
    /\ sendFailed = FALSE
    /\ beatSends = 0
    /\ pauses = <<>>

\* no process: the state of the pipeline while GetPostInfo is checked alone
InitPipeIdle ==
    /\ BotToken = "token" /\ ChannelID = -1001 /\ StartBy = 3
    /\ DebugMode = FALSE /\ GoroutineNum = 1
    /\ rssFile = [state |-> "ok", n |-> 0]
    /\ feedOf = <<>>
    /\ chanCap = MadeCap
    /\ proc = "exited"
    /\ InitProg

NewRun == [pc |-> "idle", cnt |-> 0, pauses |-> <<>>, n |-> 0, sends |-> 0, beats |-> 0]

InitPairIdle ==
    /\ pQueue = <<>>
    /\ pLive = NewRun
    /\ pDebug = NewRun

InitFetchIdle ==
    /\ fPc = "idle"
    /\ fNow = W(0, 0, 0)
    /\ fStartBy = 0
    /\ fFeed = ParseFailed
    /\ fWindow = [start |-> W(0, 0, 0), end |-> W(0, 0, 0)]
    /\ fMsg = <<>>

\* a run of the pipeline whose channels were made with capacities among caps
InitRun(caps) ==
    /\ InitFetchIdle
    /\ InitPairIdle
    /\ BotToken \in {"", "token"}
    /\ ChannelID \in {0, -1001}
    /\ StartBy \in PipeLookBacks
    /\ DebugMode \in BOOLEAN
    /\ GoroutineNum \in 1..MaxWorkers
    /\ \/ rssFile \in RssFiles /\ feedOf = <<>>
       \/ \E fl \in FeedLists : rssFile = [state |-> "ok", n |-> Len(fl)] /\ feedOf = fl
    /\ chanCap \in caps
    /\ proc = "running"
    /\ InitProg

Init == InitRun({MadeCap})

\* (mutation) the test with && for ||
TokenInvalidBoth(token, channel) == token = "" /\ channel = 0

\* line 29: the test that makes TokenValid panic
TokenInvalid(token, channel) == token = "" \/ channel = 0

\* (mutation) the loop stops one element early
ProducerSkipsLast(i, infos) == i < Len(infos)

\* line 88: the range loop of InfoProducer has a next element
ProducerHasNext(i, infos) == i <= Len(infos)

\* line 206: the pacing test, on the incremented cnt
PacingDue(c) == c % PaceEvery = 0

\* (mutation) the beat package test inverted
HeartbeatDueNonZero(c) == c # 0

\* line 212: the beat package test
HeartbeatDue(c) == c = 0

\* (mutation) the counter is incremented only after a send without error
PushPostItemCountsSent(debug, c, sendOk) ==
    IF debug
    THEN [cnt |-> c, sends |-> 0, failed |-> FALSE, slept |-> FALSE]
    ELSE [cnt |-> IF sendOk THEN c + 1 ELSE c, sends |-> 1, failed |-> ~sendOk,
          slept |-> sendOk /\ PacingDue(c + 1)]

\* lines 192-208, one iteration of PushPost's loop: the new cnt, the bot.Send
\* calls made, whether an error was logged, and whether it slept
PushPostItem(debug, c, sendOk) ==
    IF debug
    THEN [cnt |-> c, sends |-> 0, failed |-> FALSE, slept |-> FALSE]
    ELSE [cnt |-> c + 1, sends |-> 1, failed |-> ~sendOk,
          slept |-> PacingDue(c + 1)]

\* lines 211-216, after the loop: the bot.Send calls made and whether the call
\* panicked (bot.Send on the nil *BotAPI dereferences the receiver)
PushPostBeat(c, b) ==
    IF HeartbeatDue(c)
    THEN [sends |-> 1, panics |-> (b = "nil")]
    ELSE [sends |-> 0, panics |-> FALSE]

\* lines 180-188: bot after onceLoader.Do, NewBotAPI having succeeded
BotAfterOnce(debug) == IF debug THEN "nil" ELSE "client"

Running == proc = "running"

\* ---- init(): TokenValid, GetRssInfo
TokenValid ==
    /\ Running /\ pcMain = "TokenValid"
    /\ IF TokenInvalid(BotToken, ChannelID)
       THEN proc' = "panicked" /\ pcMain' = pcMain
       ELSE proc' = proc /\ pcMain' = "GetRssInfo"
    /\ UNCHANGED <<RssInfos, infoChan, tgChan, pcProd, prodNext, pcW, wFeeds, wg,
                   pcPush, cnt, bot, ctxDone>>
    /\ UNCHANGED <<sideVars, envVars, obsVars>>

GetRssInfo ==
    /\ Running /\ pcMain = "GetRssInfo"
    /\ IF rssFile.state # "ok"
       THEN proc' = "panicked" /\ pcMain' = pcMain /\ RssInfos' = RssInfos
       ELSE proc' = proc /\ pcMain' = "main"
            /\ RssInfos' = [i \in 1..rssFile.n |-> i]
    /\ UNCHANGED <<infoChan, tgChan, pcProd, prodNext, pcW, wFeeds, wg,
                   pcPush, cnt, bot, ctxDone>>
    /\ UNCHANGED <<sideVars, envVars, obsVars>>

\* ---- main(), lines 221-232: start PushPost, InfoProducer and the consumers
MainSpawn ==
    /\ Running /\ pcMain = "main"
    /\ pcPush' = "once"
    /\ pcProd' = "run"
    /\ wg' = wg + GoroutineNum
    /\ pcW' = [w \in Workers |-> IF w <= GoroutineNum THEN "run" ELSE "idle"]
    /\ pcMain' = "wgWait"
    /\ UNCHANGED <<proc, RssInfos, infoChan, tgChan, prodNext, wFeeds, cnt, bot, ctxDone>>
    /\ UNCHANGED <<sideVars, envVars, obsVars>>

\* lines 233-236: wg.Wait() returns, close(tgChan)
MainCloseTg ==
    /\ Running /\ pcMain = "wgWait"
    /\ WgWaitReturns(wg)
    /\ IF tgChan.closed
       THEN proc' = "panicked" /\ tgChan' = tgChan /\ pcMain' = pcMain
       ELSE proc' = proc /\ tgChan' = ChanClose(tgChan) /\ pcMain' = "waitDone"
    /\ UNCHANGED <<RssInfos, infoChan, pcProd, prodNext, pcW, wFeeds, wg,
                   pcPush, cnt, bot, ctxDone>>
    /\ UNCHANGED <<sideVars, envVars, obsVars>>

\* lines 238-240: <-ctx.Done(), return
MainDone ==
    /\ Running /\ pcMain = "waitDone"
    /\ CtxDoneReturns(ctxDone)
    /\ pcMain' = "exited"
    /\ proc' = "exited"
    /\ UNCHANGED <<RssInfos, infoChan, tgChan, pcProd, prodNext, pcW, wFeeds, wg,
                   pcPush, cnt, bot, ctxDone>>
    /\ UNCHANGED <<sideVars, envVars, obsVars>>

\* ---- InfoProducer, line 89: infoChan <- info
ProducerSend ==
    /\ Running /\ pcProd = "run"
    /\ ProducerHasNext(prodNext, RssInfos)
    /\ IF infoChan.closed
       THEN proc' = "panicked" /\ infoChan' = infoChan /\ prodNext' = prodNext
       ELSE /\ ~ChanFull(infoChan, chanCap.info)
            /\ infoChan' = ChanSend(infoChan, RssInfos[prodNext])
            /\ prodNext' = prodNext + 1
            /\ proc' = proc
    /\ UNCHANGED <<pcMain, RssInfos, tgChan, pcProd, pcW, wFeeds, wg,
                   pcPush, cnt, bot, ctxDone>>
    /\ UNCHANGED <<sideVars, envVars, obsVars>>

\* lines 84-86: the deferred close(infoChan)
ProducerClose ==
    /\ Running /\ pcProd = "run"
    /\ ~ProducerHasNext(prodNext, RssInfos)
    /\ IF infoChan.closed
       THEN proc' = "panicked" /\ infoChan' = infoChan /\ pcProd' = pcProd
       ELSE proc' = proc /\ infoChan' = ChanClose(infoChan) /\ pcProd' = "done"
    /\ UNCHANGED <<pcMain, RssInfos, tgChan, prodNext, pcW, wFeeds, wg,
                   pcPush, cnt, bot, ctxDone>>
    /\ UNCHANGED <<sideVars, envVars, obsVars>>

\* (mutation) the consumer returns when the parse of a descriptor fails
WorkerFetchReturnsOnError(w) ==
    /\ Running /\ pcW[w] = "run"
    /\ wFeeds[w] = <<>>
    /\ infoChan.buf # <<>>
    /\ LET info == Head(infoChan.buf)
       IN  /\ \E now \in PipeNows :
               \E msg \in {GetPostInfo(feedOf[info], now, StartBy)} :
                   /\ wFeeds' = [wFeeds EXCEPT
                          ![w] = [k \in 1..Len(msg) |-> [sub |-> info, idx |-> msg[k]]]]
                   /\ fetchCount' = [fetchCount EXCEPT ![info] = @ + 1]
                   /\ fetchResult' = [fetchResult EXCEPT ![info] = msg]
                   /\ dequeued' = Append(dequeued, info)
           /\ IF feedOf[info].ok
              THEN pcW' = pcW /\ wg' = wg
              ELSE pcW' = [pcW EXCEPT ![w] = "done"] /\ wg' = wg - 1
    /\ infoChan' = ChanRecv(infoChan)
    /\ UNCHANGED <<proc, pcMain, RssInfos, tgChan, pcProd, prodNext,
                   pcPush, cnt, bot, ctxDone>>
    /\ UNCHANGED <<sideVars, envVars, processed, itemSends, sendFailed, beatSends, pauses>>

\* ---- InfoComsumer, lines 96-97: receive a descriptor, feeds := GetPostInfo(info)
WorkerFetch(w) ==
    /\ Running /\ pcW[w] = "run"
    /\ wFeeds[w] = <<>>
    /\ infoChan.buf # <<>>
    /\ LET info == Head(infoChan.buf)
       IN  \E now \in PipeNows :
             \E msg \in {GetPostInfo(feedOf[info], now, StartBy)} :
                 /\ wFeeds' = [wFeeds EXCEPT
                        ![w] = [k \in 1..Len(msg) |-> [sub |-> info, idx |-> msg[k]]]]
                 /\ fetchCount' = [fetchCount EXCEPT ![info] = @ + 1]
                 /\ fetchResult' = [fetchResult EXCEPT ![info] = msg]
                 /\ dequeued' = Append(dequeued, info)
    /\ infoChan' = ChanRecv(infoChan)
    /\ UNCHANGED <<proc, pcMain, RssInfos, tgChan, pcProd, prodNext, pcW, wg,
                   pcPush, cnt, bot, ctxDone>>
    /\ UNCHANGED <<sideVars, envVars, processed, itemSends, sendFailed, beatSends, pauses>>

\* line 100: tgChan <- feed
WorkerSend(w) ==
    /\ Running /\ pcW[w] = "run"
    /\ wFeeds[w] # <<>>
    /\ IF tgChan.closed
       THEN proc' = "panicked" /\ tgChan' = tgChan /\ wFeeds' = wFeeds
       ELSE /\ ~ChanFull(tgChan, chanCap.tg)
            /\ tgChan' = ChanSend(tgChan, Head(wFeeds[w]))
            /\ wFeeds' = [wFeeds EXCEPT ![w] = Tail(@)]
            /\ proc' = proc
    /\ UNCHANGED <<pcMain, RssInfos, infoChan, pcProd, prodNext, pcW, wg,
                   pcPush, cnt, bot, ctxDone>>
    /\ UNCHANGED <<sideVars, envVars, obsVars>>

\* lines 94, 96: the range over infoChan ends, the deferred done() = wg.Done()
WorkerExit(w) ==
    /\ Running /\ pcW[w] = "run"
    /\ wFeeds[w] = <<>>
    /\ ChanRangeEnded(infoChan)
    /\ pcW' = [pcW EXCEPT ![w] = "done"]
    /\ wg' = wg - 1
    /\ UNCHANGED <<proc, pcMain, RssInfos, infoChan, tgChan, pcProd, prodNext, wFeeds,
                   pcPush, cnt, bot, ctxDone>>
    /\ UNCHANGED <<sideVars, envVars, obsVars>>

\* ---- PushPost, lines 180-190: onceLoader.Do, cnt := 0.  NewBotAPI may fail,
\* and the panic runs the deferred done() before the process dies.
PushOnce ==
    /\ Running /\ pcPush = "once"
    /\ \E ok \in BOOLEAN :
         IF DebugMode \/ ok
         THEN /\ bot' = BotAfterOnce(DebugMode) /\ pcPush' = "loop"
              /\ UNCHANGED <<proc, ctxDone>>
         ELSE /\ bot' = bot /\ pcPush' = "panicOnce"
              /\ ctxDone' = TRUE /\ proc' = "panicked"
    /\ cnt' = 0
    /\ UNCHANGED <<pcMain, RssInfos, infoChan, tgChan, pcProd, prodNext, pcW, wFeeds, wg>>
    /\ UNCHANGED <<sideVars, envVars, obsVars>>

\* lines 191-209: one iteration of the range over tgChan
PushItem ==
    /\ Running /\ pcPush = "loop"
    /\ tgChan.buf # <<>>
    /\ processed' = Append(processed, Head(tgChan.buf))
    /\ tgChan' = ChanRecv(tgChan)
    /\ \E sendOk \in BOOLEAN :
         LET r == PushPostItem(DebugMode, cnt, sendOk)
         IN  /\ cnt' = r.cnt
             /\ itemSends' = itemSends + r.sends
             /\ sendFailed' = (sendFailed \/ r.failed)
             /\ pauses' = IF r.slept THEN Append(pauses, Len(processed')) ELSE pauses
    /\ UNCHANGED <<proc, pcMain, RssInfos, infoChan, pcProd, prodNext, pcW, wFeeds, wg,
                   pcPush, bot, ctxDone>>
    /\ UNCHANGED <<sideVars, envVars, fetchCount, fetchResult, dequeued, beatSends>>

\* lines 211-217: tgChan closed and drained, the beat package, the deferred done()
PushFinish ==
    /\ Running /\ pcPush = "loop"
    /\ ChanRangeEnded(tgChan)
    /\ LET r == PushPostBeat(cnt, bot)
       IN  /\ beatSends' = beatSends + r.sends
           /\ IF r.panics
              THEN pcPush' = "panicBeat" /\ proc' = "panicked"
              ELSE pcPush' = "done" /\ proc' = proc
    /\ ctxDone' = TRUE
    /\ UNCHANGED <<pcMain, RssInfos, infoChan, tgChan, pcProd, prodNext, pcW, wFeeds, wg,
                   cnt, bot>>
    /\ UNCHANGED <<sideVars, envVars, fetchCount, fetchResult, dequeued, processed,
                   itemSends, sendFailed, pauses>>

Next ==
    \/ TokenValid
    \/ GetRssInfo
    \/ MainSpawn
    \/ MainCloseTg
    \/ MainDone
    \/ ProducerSend
    \/ ProducerClose
    \/ \E w \in Workers : WorkerFetch(w)
    \/ \E w \in Workers : WorkerSend(w)
    \/ \E w \in Workers : WorkerExit(w)
    \/ PushOnce
    \/ PushItem
    \/ PushFinish

Spec == Init /\ [][Next]_vars

\* ---- the same program with other capacities in the two make calls
InfoCaps == {1, InfoChanCap}
TgCaps == {1, 2, TgChanCap}

InitCap == InitRun([info : InfoCaps, tg : TgCaps])

SpecCap == InitCap /\ [][Next]_vars

-----------------------------------------------------------------------------
\* Inputs of a GetPostInfo call checked on its own

MaxEntries == 2

Nows == {W(NowHour, 0, 0), W(NowHour, 1754, 5), W(NowHour, 3599, 999999999),
         W(0, 0, 0)}

LookBacks == {0, 1, 3, 24, 2562047, 2562048, 5124095, 5124096,
              -1, -24, -2562047, -2562048}

PubTimes == {Nil, Ptr(ZeroTime), Ptr(W(NowHour - 3, 0, 0)),
             Ptr(W(NowHour - 4, 3599, 7)), Ptr(W(NowHour, 0, 0))}
UpdTimes == {Nil, Ptr(ZeroTime), Ptr(W(NowHour - 1, 3599, 999999999)),
             Ptr(W(NowHour + 2562047, 10, 0))}

Entries == [pub : PubTimes, upd : UpdTimes]


InitFetch ==
    /\ InitPipeIdle
    /\ InitPairIdle
    /\ fPc = "window"
    /\ fNow \in Nows
    /\ fStartBy \in LookBacks
    /\ fFeed \in {ParseFailed} \cup {Parsed(q) : q \in SeqsUpTo(Entries, MaxEntries)}
    /\ fWindow = [start |-> W(0, 0, 0), end |-> W(0, 0, 0)]
    /\ fMsg = <<>>

FetchWindow ==
    /\ fPc = "window"
    /\ fWindow' = ComputeWindow(fNow, fStartBy)
    /\ fPc' = "filter"
    /\ UNCHANGED <<fNow, fStartBy, fFeed, fMsg, pairVars, envVars, progVars, obsVars>>

FetchFilter ==
    /\ fPc = "filter"
    /\ fMsg' = GetPostInfo(fFeed, fNow, fStartBy)
    /\ fPc' = "done"
    /\ UNCHANGED <<fNow, fStartBy, fFeed, fWindow, pairVars, envVars, progVars, obsVars>>

NextFetch == FetchWindow \/ FetchFilter

SpecFetch == InitFetch /\ [][NextFetch]_vars

-----------------------------------------------------------------------------
\* PushPost's loop and beat package with *DebugMode false and with *DebugMode
\* true, side by side on the same items in the same order

PairQueues == {[k \in 1..n |-> [sub |-> 1, idx |-> k]] : n \in 0..LongLen}

InitPair ==
    /\ InitFetchIdle
    /\ InitPipeIdle
    /\ pQueue \in PairQueues
    /\ pLive = [NewRun EXCEPT !.pc = "loop"]
    /\ pDebug = [NewRun EXCEPT !.pc = "loop"]

\* one iteration of the loop (lines 191-209) of a run
RunItem(run, debug, sendOk) ==
    LET r == PushPostItem(debug, run.cnt, sendOk)
    IN  [run EXCEPT !.cnt = r.cnt,
                    !.n = @ + 1,
                    !.sends = @ + r.sends,
                    !.pauses = IF r.slept THEN Append(@, run.n + 1) ELSE @]

\* the end of the loop (lines 211-217) of a run
RunFinish(run, debug) ==
    LET r == PushPostBeat(run.cnt, BotAfterOnce(debug))
    IN  [run EXCEPT !.beats = @ + r.sends,
                    !.pc = IF r.panics THEN "panicBeat" ELSE "done"]

PairItem ==
    /\ pQueue # <<>>
    /\ pLive.pc = "loop" /\ pDebug.pc = "loop"
    /\ \E sendOk \in BOOLEAN :
         /\ pLive' = RunItem(pLive, FALSE, sendOk)
         /\ pDebug' = RunItem(pDebug, TRUE, sendOk)
    /\ pQueue' = Tail(pQueue)
    /\ UNCHANGED <<fetchVars, envVars, progVars, obsVars>>

PairFinish ==
    /\ pQueue = <<>>
    /\ pLive.pc = "loop" /\ pDebug.pc = "loop"
    /\ pLive' = RunFinish(pLive, FALSE)
    /\ pDebug' = RunFinish(pDebug, TRUE)
    /\ UNCHANGED <<pQueue, fetchVars, envVars, progVars, obsVars>>

NextPair == PairItem \/ PairFinish

SpecPair == InitPair /\ [][NextPair]_vars

-----------------------------------------------------------------------------
\* What the specification says of a fetch, stated without the program's operators

\* the effective timestamp: published unless absent or zero, then updated
SpecEffective(e) ==
    IF e.pub # Nil /\ e.pub[1] # ZeroTime THEN e.pub ELSE e.upd

\* [truncateToHour(now - h hours), truncateToHour(now)), in exact arithmetic
SpecWindow(now, h) == [start |-> W(now.h - h, 0, 0), end |-> W(now.h, 0, 0)]

\* non-null, non-zero and start <= t < end
SpecIncluded(e, win) ==
    LET t == SpecEffective(e)
    IN  /\ t # Nil
        /\ t[1] # ZeroTime
        /\ WLeq(win.start, t[1])
        /\ WLess(t[1], win.end)

SpecQualifying(feed, now, h) ==
    {i \in 1..Len(feed.items) : feed.ok /\ SpecIncluded(feed.items[i], SpecWindow(now, h))}

Range(q) == {q[i] : i \in 1..Len(q)}
Increasing(q) == \A i, j \in 1..Len(q) : i < j => q[i] < q[j]

AllWorkersExited ==
    /\ pcMain \notin {"TokenValid", "GetRssInfo", "main"}
    /\ \A w \in Workers : w <= GoroutineNum => pcW[w] = "done"

\* PushPost has left its loop over tgChan
Drained == pcPush \in {"done", "panicBeat"}

ProcessedOf(sub) == {i \in 1..Len(processed) : processed[i].sub = sub}

\* C1: in a live run, once PushPost has finished, the beat package was sent
\* exactly once if no item was processed and not at all if one or more were
C1_HeartbeatIffNoItems ==
    (~DebugMode /\ pcPush = "done") =>
        beatSends = (IF Len(processed) = 0 THEN 1 ELSE 0)

C1_Witness ==
    /\ ~DebugMode /\ pcPush = "done"
    /\ Len(processed) = 1 /\ sendFailed
    /\ beatSends = 0

C1_WitnessNoItems ==
    /\ ~DebugMode /\ pcPush = "done"
    /\ rssFile.n = 2 /\ processed = <<>> /\ beatSends = 1

\* C2: in debug mode no bot.Send call is ever made, for an item or for the beat
C2_DebugNeverSends ==
    DebugMode => (itemSends = 0 /\ beatSends = 0)

\* C4: no descriptor is fetched twice, and once every consumer has exited each
\* descriptor of the file has been fetched exactly once
C4_EachDescriptorOnce ==
    /\ \A i \in DOMAIN fetchCount : fetchCount[i] <= 1
    /\ AllWorkersExited => \A i \in 1..rssFile.n : fetchCount[i] = 1

C4_Witness ==
    /\ AllWorkersExited
    /\ GoroutineNum = 2 /\ rssFile.n = 3
    /\ \A i \in 1..3 : fetchCount[i] = 1

\* C5: when PushPost has drained tgChan, every descriptor was fetched, a
\* descriptor whose parse failed contributed no item, and the items processed
\* of each other descriptor are as many as its entries that qualify for the
\* window of its fetch
C5_FailureIsolation ==
    Drained =>
        \A sub \in 1..rssFile.n :
            /\ fetchCount[sub] = 1
            /\ ~feedOf[sub].ok => ProcessedOf(sub) = {}
            /\ \E now \in PipeNows :
                 Cardinality(ProcessedOf(sub)) =
                     Cardinality(SpecQualifying(feedOf[sub], now, StartBy))

C5_Witness ==
    /\ Drained
    /\ rssFile.n = 2 /\ ~feedOf[1].ok /\ feedOf[2].ok
    /\ fetchCount[1] = 1
    /\ Len(processed) = 2

\* C6: the pauses of PushPost are exactly those after the 10th, 20th, ...
\* processed item
C6_PauseEveryTenth ==
    pauses = [j \in 1..(Len(processed) \div PaceEvery) |-> PaceEvery * j]

\* C8: a fetch returns entries in their parsed order, and the items of one
\* descriptor are received by PushPost (and wait in tgChan) in that order
C8_OrderKept ==
    /\ \A sub \in DOMAIN fetchResult :
         /\ Increasing(fetchResult[sub])
         /\ Range(fetchResult[sub]) \subseteq 1..Len(feedOf[sub].items)
    /\ LET q == processed \o tgChan.buf
       IN  \A i, j \in 1..Len(q) :
             (i < j /\ q[i].sub = q[j].sub) => q[i].idx < q[j].idx

C8_Witness ==
    /\ Len(processed) = 3
    /\ processed[1].sub = processed[3].sub
    /\ processed[2].sub # processed[1].sub
    /\ processed[1].idx = 1 /\ processed[3].idx = 3

\* C10: with an empty token, a zero channel id or a configuration file that
\* cannot be opened or decoded, nothing of the pipeline ever happens
BadStartup == BotToken = "" \/ ChannelID = 0 \/ rssFile.state # "ok"

C10_FatalStartup ==
    BadStartup =>
        /\ pcMain \in {"TokenValid", "GetRssInfo"}
        /\ proc \in {"running", "panicked"}
        /\ pcProd = "idle" /\ pcPush = "idle"
        /\ \A w \in Workers : pcW[w] = "idle"
        /\ prodNext = 1 /\ infoChan = NewChan /\ tgChan = NewChan
        /\ \A i \in DOMAIN fetchCount : fetchCount[i] = 0
        /\ processed = <<>>
        /\ itemSends = 0 /\ beatSends = 0

C10_Witness ==
    /\ DebugMode
    /\ BotToken # "" /\ ChannelID # 0 /\ rssFile.state = "malformed"
    /\ proc = "panicked"

\* C3: a debug run and a live run that receive the same items in the same order
\* have the same cnt after every item, pause after the same items, and take the
\* same beat package decision
C3_DebugCountsLikeLive ==
    /\ pDebug.n = pLive.n
    /\ pDebug.cnt = pLive.cnt
    /\ pDebug.pauses = pLive.pauses
    /\ HeartbeatDue(pDebug.cnt) = HeartbeatDue(pLive.cnt)

\* C7: a fetch keeps an entry if and only if its effective timestamp is
\* non-null, non-zero and within [start, end) of the window of the call
C7_KeptIffInWindow ==
    (fPc = "done" /\ fFeed.ok) =>
        \A i \in 1..Len(fFeed.items) :
            (i \in Range(fMsg)) <=> SpecIncluded(fFeed.items[i], fWindow)

C7_Witness ==
    /\ fPc = "done"
    /\ fStartBy = 3
    /\ Len(fFeed.items) = 2
    /\ fFeed.items[1] = [pub |-> Ptr(ZeroTime), upd |-> Ptr(ZeroTime)]
    /\ fFeed.items[2].pub = Ptr(ZeroTime) /\ fFeed.items[2].upd # Nil
    /\ fMsg = <<2>>

\* C9: the window of a fetch is [truncateToHour(now - h hours),
\* truncateToHour(now)) for every look-back h >= 0, with start < end when h > 0
C9_WindowForEveryLookBack ==
    (fPc \in {"filter", "done"} /\ fStartBy >= 0) =>
        /\ fWindow = SpecWindow(fNow, fStartBy)
        /\ fStartBy > 0 => WLess(fWindow.start, fWindow.end)

\* the same within the look-backs whose Duration fits an int64
WindowForRepresentableLookBack ==
    (fPc \in {"filter", "done"} /\ fStartBy >= 0 /\ WLeq(W(fStartBy, 0, 0), MaxInt64)) =>
        /\ fWindow = SpecWindow(fNow, fStartBy)
        /\ fStartBy > 0 => WLess(fWindow.start, fWindow.end)

-----------------------------------------------------------------------------
\* Shutdown and queue discipline, under Spec

\* a panic raised by a channel operation: none of the panics the code raises
\* on purpose (TokenValid, GetRssInfo, NewBotAPI) nor the nil bot of line 213
ChanPanic ==
    /\ proc = "panicked"
    /\ pcMain \notin {"TokenValid", "GetRssInfo"}
    /\ pcPush \notin {"panicOnce", "panicBeat"}

\* C11: tgChan is closed only after every started consumer has exited,
\* infoChan only after the producer has sent every descriptor; no send and no
\* second close is ever made on a closed channel
C11_JoinBeforeClose ==
    /\ tgChan.closed =>
           /\ AllWorkersExited
           /\ \A w \in Workers : wFeeds[w] = <<>>
           /\ pcMain \in {"waitDone", "exited"}
    /\ infoChan.closed =>
           /\ pcProd = "done"
           /\ prodNext = Len(RssInfos) + 1
    /\ pcMain = "wgWait" => ~tgChan.closed
    /\ pcProd = "run" => ~infoChan.closed
    /\ ~ChanPanic

C11_Witness ==
    /\ tgChan.closed /\ infoChan.closed
    /\ GoroutineNum = 2
    /\ Len(RssInfos) = 3
    /\ Len(processed) + Len(tgChan.buf) >= 3

NoRepeat(q) == \A i, j \in 1..Len(q) : i < j => q[i] # q[j]

\* the items the GetPostInfo calls made so far have returned
FetchedItems ==
    UNION {{[sub |-> s, idx |-> fetchResult[s][k]] : k \in 1..Len(fetchResult[s])} :
              s \in 1..Len(fetchResult)}

\* the items a consumer holds and has not sent to tgChan yet
HeldItems == UNION {Range(wFeeds[w]) : w \in Workers}

Completed ==
    /\ proc = "exited"
    /\ pcProd = "done" /\ infoChan.closed
    /\ AllWorkersExited
    /\ tgChan.closed /\ tgChan.buf = <<>>
    /\ pcPush = "done"

\* the panics the code raises on purpose: lines 30, 65, 70 and 185
FatalByDesign ==
    /\ proc = "panicked"
    /\ pcMain \in {"TokenValid", "GetRssInfo"} \/ pcPush = "panicOnce"

\* C13: with any number of consumers, descriptors and items, a run that has
\* passed its startup checks and built its client goes on until it has
\* completed: every state but the completed one has a next step
C13_RunsToCompletion == Completed \/ FatalByDesign \/ ENABLED Next

\* C14: in a live run every received item gets one bot.Send call and one
\* increment of cnt, whether the call fails or not, so that at the end cnt is
\* the number of items received; a failing call leaves PushPost in its loop
C14_SendOncePerItem ==
    /\ [](~DebugMode =>
            /\ itemSends = Len(processed)
            /\ cnt = Len(processed)
            /\ sendFailed => pcPush \in {"loop", "done"}
            /\ pcPush = "done" => cnt = Cardinality(FetchedItems))
    /\ [][(~DebugMode /\ ~sendFailed /\ sendFailed') =>
            /\ pcPush' = "loop" /\ proc' = "running"
            /\ itemSends' = itemSends + 1 /\ cnt' = cnt + 1]_vars

C14_Witness ==
    /\ ~DebugMode /\ pcPush = "done"
    /\ sendFailed
    /\ Len(processed) = 3 /\ cnt = 3 /\ itemSends = 3

-----------------------------------------------------------------------------
\* The effective timestamp, under SpecFetch

\* a timestamp that is there and is not the zero time
Present(t) == t # Nil /\ t[1] # ZeroTime

Inside(t, win) == WLeq(win.start, t[1]) /\ WLess(t[1], win.end)

\* C15: the published timestamp decides whenever it is present and non-zero,
\* the updated one only otherwise: an entry whose published timestamp is
\* outside the window is left out even with an updated one inside, an entry
\* with one inside is kept even with an updated one outside, and an entry
\* without a usable published timestamp is kept on an updated one inside
C15_PublishedFirst ==
    (fPc = "done" /\ fFeed.ok) =>
        \A i \in 1..Len(fFeed.items) :
            LET e == fFeed.items[i]
            IN  /\ (Present(e.pub) /\ ~Inside(e.pub, fWindow)) => i \notin Range(fMsg)
                /\ (Present(e.pub) /\ Inside(e.pub, fWindow)) => i \in Range(fMsg)
                /\ (~Present(e.pub) /\ Present(e.upd) /\ Inside(e.upd, fWindow)) =>
                       i \in Range(fMsg)

C15_Witness ==
    /\ fPc = "done" /\ fStartBy = 3 /\ fNow = W(NowHour, 1754, 5)
    /\ Len(fFeed.items) = 2
    /\ Present(fFeed.items[1].pub) /\ ~Inside(fFeed.items[1].pub, fWindow)
    /\ Present(fFeed.items[1].upd) /\ Inside(fFeed.items[1].upd, fWindow)
    /\ fFeed.items[2].pub = Nil
    /\ Present(fFeed.items[2].upd) /\ Inside(fFeed.items[2].upd, fWindow)
    /\ fMsg = <<2>>

-----------------------------------------------------------------------------
\* The beat package, the producer's order and the client, under Spec

\* C16: the bot.Send of the beat package is attempted only once tgChan has
\* been closed and PushPost has found it drained, hence after every started
\* consumer has exited; it is attempted at most once and no item is received
\* or sent after it
C16_HeartbeatLast ==
    /\ [](beatSends > 0 =>
            /\ beatSends = 1
            /\ tgChan.closed /\ tgChan.buf = <<>>
            /\ AllWorkersExited
            /\ Drained)
    /\ [][beatSends > 0 =>
            /\ itemSends' = itemSends
            /\ processed' = processed
            /\ beatSends' = beatSends]_vars

C16_Witness ==
    /\ beatSends = 1 /\ itemSends = 0
    /\ ~DebugMode /\ pcPush = "done"
    /\ GoroutineNum = 2
    /\ Len(RssInfos) = 3

\* C17: the producer sends the descriptors in the order of RssInfos, waiting
\* while infoChan is full, and closes infoChan once, after the last send: the
\* descriptors received so far, by whichever consumer, followed by the queued
\* ones are the first prodNext - 1 of RssInfos, and when the consumers have
\* exited the received sequence is RssInfos
C17_ProducerOrder ==
    /\ dequeued \o infoChan.buf = SubSeq(RssInfos, 1, prodNext - 1)
    /\ Len(infoChan.buf) <= chanCap.info
    /\ infoChan.closed => (pcProd = "done" /\ prodNext = Len(RssInfos) + 1)
    /\ pcProd = "run" => ~infoChan.closed
    /\ AllWorkersExited => dequeued = RssInfos

\* the producer waits on the full infoChan while two consumers receive
C17_Witness ==
    /\ Len(infoChan.buf) = chanCap.info
    /\ pcProd = "run" /\ ProducerHasNext(prodNext, RssInfos)
    /\ GoroutineNum = 2
    /\ Len(dequeued) >= 1

C17_WitnessAll ==
    /\ AllWorkersExited
    /\ GoroutineNum = 2
    /\ Len(dequeued) > chanCap.info

-----------------------------------------------------------------------------
\* Look-backs of zero hours or less, under SpecFetch

\* C18: with a look-back h <= 0 the window of a fetch has start >= end and the
\* fetch returns nothing, whatever the clock reads and the feed holds
C18_EmptyForNonPositive ==
    (fPc = "done" /\ fStartBy <= 0) =>
        /\ WLeq(fWindow.end, fWindow.start)
        /\ fMsg = <<>>

\* the same within the look-backs whose Duration fits an int64
EmptyForRepresentableNonPositive ==
    (fPc = "done" /\ fStartBy <= 0 /\ WLeq(MinInt64, W(fStartBy, 0, 0))) =>
        /\ WLeq(fWindow.end, fWindow.start)
        /\ fMsg = <<>>

\* in a run with a look-back of zero hours no item is processed
NoItemsForZeroLookBack == StartBy <= 0 => (processed = <<>> /\ FetchedItems = {})

-----------------------------------------------------------------------------
\* The client, under Spec

\* C19: whenever PushPost has attempted a bot.Send, for an item or for the
\* beat package, in a live or a debug run, bot had been constructed
C19_ClientBeforeSend == (itemSends > 0 \/ beatSends > 0) => bot = "client"

-----------------------------------------------------------------------------
\* The capacities of the two channels, under SpecCap

\* what a finished run has done, told without the capacities: every
\* descriptor fetched once, every fetched item received once, and the beat
\* package decided on the number of items alone
OutcomeOfInputs ==
    /\ \A s \in 1..Len(RssInfos) :
           /\ fetchCount[s] = 1
           /\ \E now \in PipeNows : fetchResult[s] = GetPostInfo(feedOf[s], now, StartBy)
    /\ NoRepeat(processed)
    /\ Range(processed) = FetchedItems
    /\ beatSends = (IF DebugMode \/ FetchedItems = {} THEN 1 ELSE 0)

\* ---- goroutines that cannot run: returned, or waiting on a channel, on wg
\* or on ctx
MainWaits ==
    \/ pcMain = "wgWait" /\ ~WgWaitReturns(wg)
    \/ pcMain = "waitDone" /\ ~CtxDoneReturns(ctxDone)

ProducerWaits ==
    \/ pcProd = "done"
    \/ /\ pcProd = "run" /\ ProducerHasNext(prodNext, RssInfos)
       /\ ~infoChan.closed /\ ChanFull(infoChan, chanCap.info)

WorkerWaits(w) ==
    \/ pcW[w] \in {"idle", "done"}
    \/ /\ pcW[w] = "run" /\ wFeeds[w] = <<>>
       /\ infoChan.buf = <<>> /\ ~infoChan.closed
    \/ /\ pcW[w] = "run" /\ wFeeds[w] # <<>>
       /\ ~tgChan.closed /\ ChanFull(tgChan, chanCap.tg)

PushPostWaits ==
    \/ pcPush = "done"
    \/ pcPush = "loop" /\ tgChan.buf = <<>> /\ ~tgChan.closed

\* the process lives and none of its goroutines can run
Deadlocked ==
    /\ Running
    /\ MainWaits /\ ProducerWaits /\ PushPostWaits
    /\ \A w \in Workers : WorkerWaits(w)

\* a state without a next step is either one where the process has ended or
\* a deadlock
DeadlockedIffNoStep == (Running /\ ~Deadlocked) <=> ENABLED Next

\* C20: with capacities of 1 or 20 for infoChan and of 1, 2 or 20 for tgChan,
\* neither buffer ever holds more than its capacity, the run never deadlocks
\* and ends as with capacity 20 (a live run completed, a debug run in the
\* panic of line 213), and at its end it has processed the items and decided
\* on the beat package as its inputs alone determine
C20_CapacityFree ==
    /\ Len(infoChan.buf) <= chanCap.info
    /\ Len(tgChan.buf) <= chanCap.tg
    /\ ~Deadlocked
    /\ (DebugMode /\ proc # "running") => (FatalByDesign \/ pcPush = "panicBeat")
    /\ (~DebugMode /\ proc # "running") => (FatalByDesign \/ Completed)
    /\ Drained => OutcomeOfInputs

C20_Witness ==
    /\ Completed
    /\ chanCap = [info |-> 1, tg |-> 1]
    /\ GoroutineNum = 2
    /\ Len(RssInfos) = 2
    /\ Len(processed) = LongLen

====
